---- MODULE Spec2Model ----
(***************************************************************************)
(* Model of GoLinuxToolkit's D-Bus machinery:                              *)
(*   - systemd StartService / StopService with waitJobComplete             *)
(*     (src/network/network.go, package systemd, lines 451-676);           *)
(*   - the NetworkManager device state-change subscription and its pump    *)
(*     goParseDeviceStateChangeSignals (src/network/network.go 377-449).   *)
(* The bus itself (godbus) is the environment: it answers calls, emits     *)
(* signals into the channels registered with conn.Signal, and fires the    *)
(* timer.                                                                  *)
(***************************************************************************)
EXTENDS Integers, Sequences, FiniteSets, TLC

VARIABLES
    \* ---- systemd service operation (one StartService/StopService call)
    svcOp,        \* "none" | "start" | "stop": which function was called
    svcPc,        \* position of the caller inside StartService/StopService
    svcConn,      \* "nil" | "open" | "closed": conn of the call
    svcErr,       \* the error value returned (NoErr for nil)
    preRes,       \* outcome of the pre-check: "none" | "running" | "stopped" | "err"
    mutCalls,     \* number of StartUnit/StopUnit calls sent on the bus
    statusChecks, \* number of checkServiceStatus invocations
    jobToken,     \* startJobPath / stopJobPath (a body element)
    registered,   \* conn.Signal(signalCh) done: signals reach signalCh
    timerArmed,   \* time.NewTimer(5s) created
    timerFired,   \* a value is ready on timer.C
    signalCh,     \* waitJobComplete's chan *dbus.Signal (cap JobChCap)
    jobArrived,   \* history: signals the bus put on signalCh
    jobSeen,      \* history: signals waitJobComplete took from signalCh
    jobLost,      \* history: signals emitted when no channel was registered
    waitOutcome,  \* "none" | "result" | "timeout" | "badtype"
    jobResult,    \* the string returned by waitJobComplete
    reconReply,   \* the reply the reconciliation query received (NoReply if none)
    unitState,    \* the unit's ActiveState as systemd holds it
    unitChanges,  \* number of ActiveState changes so far
    \* ---- device state-change subscription
    subPc,        \* "none" | "live" | "failed": DeviceStateChangeSubscribe outcome
    subConn,      \* "nil" | "open" | "closed": conn of the subscription
    sigCh,        \* raw chan *dbus.Signal (cap SigChCap)
    outCh,        \* DeviceStateChangeSubscription.C (cap OutChCap)
    pumpPc,       \* "none" | "select" | "send" | "return" | "closed" | "stopped"
    pumpVal,      \* values the pump is about to send (<<>> if none)
    ctxDone,      \* cancel() was called: ctx.Done() is closed
    wg,           \* the WaitGroup counter
    joinPc,       \* "none" | "waiting" | "returned": a caller inside Join
    delivered,    \* history: signals the transport put on sigCh
    taken,        \* history: signals the pump took from sigCh
    produced,     \* history: records the pump put on outCh
    consumed,     \* history: records the consumer took from outCh
    \* ---- further history of the service operation
    preReply,     \* the reply the pre-check query received (NoReply if none)
    reqReply,     \* the reply StartUnit/StopUnit received (NoReply if none)
    \* ---- further state of the device subscription
    subMatch,     \* "none" | "ok" | "rejected": the bus's answer to AddMatchSignal
    stopCalls,    \* number of calls of Stop
    joinCalls,    \* number of calls of Join
    \* ---- a second user of dbus.SystemBus() in the same process
    sub2Pc,       \* "none" | "live" | "cancelled" | "stopped"
    sub2Shares,   \* its *dbus.Conn is the one the first subscription holds
    \* ---- NetworkManager state subscription (unix.DBusSignalSubscription)
    nmPc,         \* "none" | "live" | "failed": GetNetworkManagerStateSubscription
    nmConn,       \* "nil" | "open": DBusSignalSubscription.Conn
    nmCh,         \* DBusSignalSubscription.C
    nmDelivered,  \* history: signals the bus sent to this connection
    nmRead        \* history: what the owner read from C

svcVars == <<svcOp, svcPc, svcConn, svcErr, preRes, mutCalls, statusChecks,
             jobToken, registered, timerArmed, timerFired, signalCh,
             jobArrived, jobSeen, jobLost, waitOutcome, jobResult,
             reconReply, unitState, unitChanges>>
subVars == <<subPc, subConn, sigCh, outCh, pumpPc, pumpVal, ctxDone, wg,
             joinPc, delivered, taken, produced, consumed>>
svcHist == <<preReply, reqReply>>
subAux == <<subMatch, stopCalls, joinCalls>>
shareVars == <<sub2Pc, sub2Shares>>
nmVars == <<nmPc, nmConn, nmCh, nmDelivered, nmRead>>
vars == <<svcVars, subVars, svcHist, subAux, shareVars, nmVars>>

\* What a step of one component leaves alone.
notSvc == <<subVars, subAux, shareVars, nmVars>>
notSub == <<svcVars, svcHist, shareVars, nmVars>>

----------------------------------------------------------------------------
\* Bounds of the model (not program constants)
MaxEmit == 2
MaxUnitChanges == 1
MaxDeliver == 3
MaxFill == 21
MaxCalls == 2
MaxCallDeliver == 1
MaxNmDeliver == 3
MaxSeenKept == 1

\* Program constants
JobChCap == 10
SigChCap == 20
OutChCap == 20
NmChCap == 20
BodyMinJob == 4
BodyMinDev == 3

----------------------------------------------------------------------------
\* Loosely typed D-Bus values: a body element carries its dynamic type.
\* t = "s" string, "o" dbus.ObjectPath, "u" uint32, "i" int32.
Str(x) == [t |-> "s", v |-> x]
Obj(x) == [t |-> "o", v |-> x]
U32(x) == [t |-> "u", v |-> x]
I32(x) == [t |-> "i", v |-> x]

Sig(p, n, b) == [Path |-> p, Name |-> n, Body |-> b]

NoErr == [kind |-> "nil", result |-> ""]
Err(k) == [kind |-> k, result |-> ""]
ErrJob(k, r) == [kind |-> k, result |-> r]

----------------------------------------------------------------------------
\* ======================= systemd: StartService / StopService =============

dbusJobRemovedSignalName == "org.freedesktop.systemd1.Manager.JobRemoved"
SystemdPath == "/org/freedesktop/systemd1"

\* Tokens: the job path StartUnit/StopUnit answers, and the one of another job.
TargetTok == "/job/7"
OtherTok == "/job/8"

UnitStates == {"active", "inactive", "failed", "activating"}

\* JobRemoved(id u, job o, unit s, result s) and look-alikes the bus may deliver.
JobBody(tok, res) == <<U32(1), tok, Str("demo.service"), res>>

JobSignals ==
    { Sig(SystemdPath, dbusJobRemovedSignalName, JobBody(Obj(TargetTok), Str("done"))),
      Sig(SystemdPath, dbusJobRemovedSignalName, JobBody(Obj(TargetTok), Str("failed"))),
      Sig(SystemdPath, dbusJobRemovedSignalName, JobBody(Obj(TargetTok), U32(0))),
      Sig(SystemdPath, dbusJobRemovedSignalName, JobBody(Obj(OtherTok), Str("done"))),
      Sig(SystemdPath, dbusJobRemovedSignalName, JobBody(Str(TargetTok), Str("done"))),
      Sig(SystemdPath, dbusJobRemovedSignalName, <<U32(1), Obj(TargetTok), Str("demo.service")>>),
      Sig(SystemdPath, "org.freedesktop.systemd1.Manager.JobNew", JobBody(Obj(TargetTok), Str("done"))) }

\* Replies to the status query: GetUnit rejected, Properties.Get rejected, or a value.
NoReply == [k |-> "none", val |-> Str("")]
StatusReplies(state) ==
    { [k |-> "getUnitErr", val |-> Str("")],
      [k |-> "getPropErr", val |-> Str("")],
      [k |-> "val", val |-> Str(state)],
      [k |-> "val", val |-> U32(0)] }

\* Replies to StartUnit/StopUnit: rejected, or a value to Store into the job path.
RequestReplies ==
    { [k |-> "callErr", val |-> Obj("")],
      [k |-> "val", val |-> Obj(TargetTok)],
      [k |-> "val", val |-> Str(TargetTok)] }

\* call.Store(&state): the string is stored when the reply holds one; the error
\* Store returns otherwise is dropped and state keeps its zero value "".
getUnitStatus(reply) ==
    IF reply.k = "getPropErr" THEN [state |-> "", err |-> TRUE]
    ELSE [state |-> IF reply.val.t = "s" THEN reply.val.v ELSE "", err |-> FALSE]

\* Faulty variant of checkServiceStatus: running = (unitState == "active").
checkServiceStatusActiveOnly(reply) ==
    IF reply.k = "getUnitErr" THEN [res |-> FALSE, err |-> TRUE]
    ELSE LET st == getUnitStatus(reply)
         IN IF st.err THEN [res |-> FALSE, err |-> TRUE]
            ELSE [res |-> st.state = "active", err |-> FALSE]

\* checkServiceStatus: (running, err). running = !(inactive || failed).
checkServiceStatus(reply) ==
    IF reply.k = "getUnitErr" THEN [res |-> FALSE, err |-> TRUE]
    ELSE LET st == getUnitStatus(reply)
         IN IF st.err THEN [res |-> FALSE, err |-> TRUE]
            ELSE [res |-> ~((st.state = "inactive") \/ (st.state = "failed")),
                  err |-> FALSE]

\* Faulty variant of doRequest: call.Err is not tested.
doRequestIgnoresErr(reply) ==
    [tok |-> IF reply.k = "val" /\ reply.val.t = "o" THEN reply.val ELSE Obj(""),
     err |-> FALSE]

\* doStartService / doStopService: call.Store(&jobObjectPath), error dropped.
doRequest(reply) ==
    IF reply.k = "callErr" THEN [tok |-> Obj(""), err |-> TRUE]
    ELSE [tok |-> IF reply.val.t = "o" THEN reply.val ELSE Obj(""), err |-> FALSE]

\* Faulty variant of Desired: StopService tests `res` as StartService does.
DesiredIgnoresOp(op, res) == res

\* The pre-check already shows the end state the operation wants.
Desired(op, res) == IF op = "start" THEN res ELSE ~res

\* Faulty variant of jobSignalStep: the job path is not compared with the target.
jobSignalStepAnyToken(signal, targetJobPath) ==
    IF signal.Name = dbusJobRemovedSignalName /\ Len(signal.Body) >= BodyMinJob
    THEN IF signal.Body[4].t = "s"
         THEN [act |-> "result", result |-> signal.Body[4].v]
         ELSE [act |-> "badtype", result |-> ""]
    ELSE [act |-> "continue", result |-> ""]

\* One pass of waitJobComplete's `case signal := <-signalCh` (lines 574-593):
\* "continue" keeps waiting, "result" returns the string, "badtype" the error.
jobSignalStep(signal, targetJobPath) ==
    IF signal.Name = dbusJobRemovedSignalName
    THEN IF Len(signal.Body) < BodyMinJob
         THEN [act |-> "continue", result |-> ""]
         ELSE LET jobPath == signal.Body[2]
                  jobRes == signal.Body[4]
              IN IF jobPath.t = targetJobPath.t /\ jobPath.v = targetJobPath.v
                 THEN IF jobRes.t = "s"
                      THEN [act |-> "result", result |-> jobRes.v]
                      ELSE [act |-> "badtype", result |-> ""]
                 ELSE [act |-> "continue", result |-> ""]
    ELSE [act |-> "continue", result |-> ""]

\* Faulty variant of afterWait: any job result returns nil at once.
afterWaitAlwaysReturn(result) == "return"

\* Lines 626-628 / 666-668: "done" returns nil, anything else goes on to the
\* second checkServiceStatus.
afterWait(result) == IF result = "done" THEN "return" ELSE "reconcile"

\* Faulty variant of reconcileVerdict: StopService judges like StartService.
reconcileVerdictIgnoresOp(op, c, result) ==
    IF c.err THEN Err("reconcile")
    ELSE IF ~c.res THEN ErrJob("jobFailed", result) ELSE NoErr

\* Lines 630-635 / 670-675: the verdict after the reconciliation query c.
reconcileVerdict(op, c, result) ==
    IF c.err THEN Err("reconcile")
    ELSE IF op = "start"
         THEN IF ~c.res THEN ErrJob("jobFailed", result) ELSE NoErr
         ELSE IF c.res THEN ErrJob("jobFailed", result) ELSE NoErr

\* Faulty variant of SvcReturn: the return leaves the connection as it is.
SvcReturnLeavesOpen(e) ==
    /\ svcErr' = e
    /\ svcPc' = "done"
    /\ svcConn' = svcConn

\* Every return path runs the deferred conn.Close().
SvcReturn(e) ==
    /\ svcErr' = e
    /\ svcPc' = "done"
    /\ svcConn' = "closed"

SvcInit ==
    /\ svcOp = "none" /\ svcPc = "idle" /\ svcConn = "nil" /\ svcErr = NoErr
    /\ preRes = "none" /\ mutCalls = 0 /\ statusChecks = 0
    /\ jobToken = Obj("") /\ registered = FALSE
    /\ timerArmed = FALSE /\ timerFired = FALSE
    /\ signalCh = <<>> /\ jobArrived = <<>> /\ jobSeen = <<>> /\ jobLost = <<>>
    /\ waitOutcome = "none" /\ jobResult = "" /\ reconReply = NoReply
    /\ unitState \in UnitStates /\ unitChanges = 0

\* StartService/StopService lines 599-603 / 639-643: dbus.SystemBus().
SvcBegin(op, connOk) ==
    /\ svcPc = "idle"
    /\ svcOp' = op
    /\ IF connOk
       THEN svcConn' = "open" /\ svcPc' = "precheck" /\ svcErr' = svcErr
       ELSE svcConn' = svcConn /\ svcPc' = "done" /\ svcErr' = Err("connect")
    /\ UNCHANGED <<preRes, mutCalls, statusChecks, jobToken, registered,
                   timerArmed, timerFired, signalCh, jobArrived, jobSeen, jobLost,
                   waitOutcome, jobResult, reconReply, unitState, unitChanges>>

\* Lines 608-615 / 648-655: the pre-check and the early return.
SvcPreCheck(reply) ==
    /\ svcPc = "precheck"
    /\ preReply' = reply
    /\ statusChecks' = statusChecks + 1
    /\ LET c == checkServiceStatus(reply)
       IN IF c.err
          THEN preRes' = "err" /\ SvcReturn(Err("precheck"))
          ELSE /\ preRes' = IF c.res THEN "running" ELSE "stopped"
               /\ IF Desired(svcOp, c.res)
                  THEN SvcReturn(NoErr)
                  ELSE svcPc' = "issue" /\ UNCHANGED <<svcErr, svcConn>>
    /\ UNCHANGED <<svcOp, mutCalls, jobToken, registered, timerArmed, timerFired,
                   signalCh, jobArrived, jobSeen, jobLost, waitOutcome, jobResult,
                   reconReply, unitState, unitChanges>>

\* Lines 616-619 / 656-659: doStartService / doStopService.
SvcIssue(reply) ==
    /\ svcPc = "issue"
    /\ reqReply' = reply
    /\ mutCalls' = mutCalls + 1
    /\ LET r == doRequest(reply)
       IN IF r.err
          THEN jobToken' = jobToken /\ SvcReturn(Err("request"))
          ELSE jobToken' = r.tok /\ svcPc' = "register"
               /\ UNCHANGED <<svcErr, svcConn>>
    /\ UNCHANGED <<svcOp, preRes, statusChecks, registered, timerArmed, timerFired,
                   signalCh, jobArrived, jobSeen, jobLost, waitOutcome, jobResult,
                   reconReply, unitState, unitChanges>>

\* waitJobComplete lines 563-568: AddMatch, conn.Signal(signalCh), NewTimer.
SvcRegister ==
    /\ svcPc = "register"
    /\ registered' = TRUE
    /\ timerArmed' = TRUE
    /\ svcPc' = "wait"
    /\ UNCHANGED <<svcOp, svcConn, svcErr, preRes, mutCalls, statusChecks, jobToken,
                   timerFired, signalCh, jobArrived, jobSeen, jobLost, waitOutcome,
                   jobResult, reconReply, unitState, unitChanges>>

\* Faulty variant of SvcWaitTimeout: on expiry the request is issued again.
SvcWaitTimeoutRetry ==
    /\ svcPc = "wait"
    /\ timerFired
    /\ waitOutcome' = "timeout"
    /\ svcPc' = "issue"
    /\ UNCHANGED <<svcOp, svcConn, svcErr, preRes, mutCalls, statusChecks, jobToken,
                   registered, timerArmed, timerFired, signalCh, jobArrived,
                   jobSeen, jobLost, jobResult, reconReply, unitState, unitChanges>>

\* select case <-timer.C (lines 572-573), then lines 622-624 / 662-664.
SvcWaitTimeout ==
    /\ svcPc = "wait"
    /\ timerFired
    /\ waitOutcome' = "timeout"
    /\ SvcReturn(Err("timeout"))
    /\ UNCHANGED <<svcOp, preRes, mutCalls, statusChecks, jobToken, registered,
                   timerArmed, timerFired, signalCh, jobArrived, jobSeen, jobLost,
                   jobResult, reconReply, unitState, unitChanges>>

\* Faulty variant of SvcWaitSignalStep: the deadline starts anew with every
\* notification that does not end the wait (timer.Reset inside the loop).
SvcWaitSignalStepResetsTimer ==
    /\ svcPc = "wait"
    /\ signalCh # <<>>
    /\ LET signal == Head(signalCh)
           s == jobSignalStep(signal, jobToken)
       IN /\ signalCh' = Tail(signalCh)
          /\ CASE s.act = "continue" ->
                    /\ timerFired' = FALSE
                    /\ UNCHANGED <<svcPc, svcErr, svcConn, waitOutcome, jobResult>>
               [] s.act = "badtype" ->
                    /\ waitOutcome' = "badtype"
                    /\ jobResult' = jobResult
                    /\ timerFired' = timerFired
                    /\ SvcReturn(Err("badtype"))
               [] s.act = "result" ->
                    /\ waitOutcome' = "result"
                    /\ jobResult' = s.result
                    /\ timerFired' = timerFired
                    /\ IF afterWait(s.result) = "return"
                       THEN SvcReturn(NoErr)
                       ELSE svcPc' = "reconcile" /\ UNCHANGED <<svcErr, svcConn>>
    /\ UNCHANGED <<svcOp, preRes, mutCalls, statusChecks, jobToken, registered,
                   timerArmed, jobArrived, jobLost, reconReply,
                   unitState, unitChanges>>

\* select case signal := <-signalCh (lines 574-593), then lines 622-628 / 662-668.
\* The history jobSeen is left to the caller of this definition.
SvcWaitSignalStep ==
    /\ svcPc = "wait"
    /\ signalCh # <<>>
    /\ LET signal == Head(signalCh)
           s == jobSignalStep(signal, jobToken)
       IN /\ signalCh' = Tail(signalCh)
          /\ CASE s.act = "continue" ->
                    UNCHANGED <<svcPc, svcErr, svcConn, waitOutcome, jobResult>>
               [] s.act = "badtype" ->
                    /\ waitOutcome' = "badtype"
                    /\ jobResult' = jobResult
                    /\ SvcReturn(Err("badtype"))
               [] s.act = "result" ->
                    /\ waitOutcome' = "result"
                    /\ jobResult' = s.result
                    /\ IF afterWait(s.result) = "return"
                       THEN SvcReturn(NoErr)
                       ELSE svcPc' = "reconcile" /\ UNCHANGED <<svcErr, svcConn>>
    /\ UNCHANGED <<svcOp, preRes, mutCalls, statusChecks, jobToken, registered,
                   timerArmed, timerFired, jobArrived, jobLost, reconReply,
                   unitState, unitChanges>>

\* The step, with every notification taken recorded in jobSeen.
SvcWaitSignal ==
    /\ SvcWaitSignalStep
    /\ jobSeen' = Append(jobSeen, Head(signalCh))

\* The step under a stream of notifications without end: jobSeen keeps the first
\* MaxSeenKept notifications taken and forgets the later ones.
SvcWaitSignalForget ==
    /\ SvcWaitSignalStep
    /\ jobSeen' = IF Len(jobSeen) < MaxSeenKept
                  THEN Append(jobSeen, Head(signalCh))
                  ELSE jobSeen

\* Lines 629-635 / 669-675: the reconciliation query and the final verdict.
SvcReconcile(reply) ==
    /\ svcPc = "reconcile"
    /\ statusChecks' = statusChecks + 1
    /\ reconReply' = reply
    /\ SvcReturn(reconcileVerdict(svcOp, checkServiceStatus(reply), jobResult))
    /\ UNCHANGED <<svcOp, preRes, mutCalls, jobToken, registered, timerArmed,
                   timerFired, signalCh, jobArrived, jobSeen, jobLost, waitOutcome,
                   jobResult, unitState, unitChanges>>

\* ---- environment of the service operation
\* The 5 s timer expires (time.NewTimer, line 567).
TimerFire ==
    /\ timerArmed /\ ~timerFired /\ svcPc = "wait"
    /\ timerFired' = TRUE
    /\ UNCHANGED <<svcOp, svcPc, svcConn, svcErr, preRes, mutCalls, statusChecks,
                   jobToken, registered, timerArmed, signalCh, jobArrived, jobSeen,
                   jobLost, waitOutcome, jobResult, reconReply, unitState,
                   unitChanges>>

\* The bus has a signal for this connection. It reaches signalCh only once
\* conn.Signal(signalCh) has run (line 565); before that it has nowhere to go.
BusEmit(sig) ==
    /\ svcConn = "open"
    /\ Len(jobArrived) + Len(jobLost) < MaxEmit
    /\ IF registered
       THEN /\ Len(signalCh) < JobChCap
            /\ signalCh' = Append(signalCh, sig)
            /\ jobArrived' = Append(jobArrived, sig)
            /\ jobLost' = jobLost
       ELSE /\ mutCalls > 0
            /\ jobLost' = Append(jobLost, sig)
            /\ UNCHANGED <<signalCh, jobArrived>>
    /\ UNCHANGED <<svcOp, svcPc, svcConn, svcErr, preRes, mutCalls, statusChecks,
                   jobToken, registered, timerArmed, timerFired, jobSeen,
                   waitOutcome, jobResult, reconReply, unitState, unitChanges>>

\* Other jobs end and start all the time: the bus keeps sending JobRemoved
\* signals (of this job and of another) to the registered channel, without end
\* and unrecorded; a full channel makes the sender wait.
StreamSignals ==
    { Sig(SystemdPath, dbusJobRemovedSignalName, JobBody(Obj(OtherTok), Str("done"))),
      Sig(SystemdPath, dbusJobRemovedSignalName, JobBody(Obj(TargetTok), Str("failed"))) }

StreamEmit(sig) ==
    /\ svcConn = "open"
    /\ registered
    /\ Len(signalCh) < JobChCap
    /\ signalCh' = Append(signalCh, sig)
    /\ UNCHANGED <<svcOp, svcPc, svcConn, svcErr, preRes, mutCalls, statusChecks,
                   jobToken, registered, timerArmed, timerFired, jobArrived,
                   jobSeen, jobLost, waitOutcome, jobResult, reconReply,
                   unitState, unitChanges>>

\* systemd moves the unit to another ActiveState.
UnitChange(s) ==
    /\ unitChanges < MaxUnitChanges
    /\ svcPc \in {"issue", "register", "wait", "reconcile"}
    /\ s # unitState
    /\ unitState' = s
    /\ unitChanges' = unitChanges + 1
    /\ UNCHANGED <<svcOp, svcPc, svcConn, svcErr, preRes, mutCalls, statusChecks,
                   jobToken, registered, timerArmed, timerFired, signalCh,
                   jobArrived, jobSeen, jobLost, waitOutcome, jobResult, reconReply>>


----------------------------------------------------------------------------
\* ======================= NetworkManager: device state-change subscription

DeviceStateChangedSignal == "org.freedesktop.NetworkManager.Device.StateChanged"
PropertiesChangedSignal == "org.freedesktop.DBus.Properties.PropertiesChanged"
DevPath == "/org/freedesktop/NetworkManager/Devices/2"
OtherDevPath == "/org/freedesktop/NetworkManager/Devices/3"

\* What the transport may put on the raw channel of the subscription.
DevSignals ==
    { Sig(DevPath, DeviceStateChangedSignal, <<U32(100), U32(70), U32(0)>>),
      Sig(DevPath, DeviceStateChangedSignal, <<U32(30), U32(100), U32(39), U32(1)>>),
      Sig(OtherDevPath, DeviceStateChangedSignal, <<U32(20), U32(30), U32(2)>>),
      Sig(DevPath, PropertiesChangedSignal, <<U32(40), U32(30), U32(0)>>),
      Sig(DevPath, DeviceStateChangedSignal, <<U32(50), U32(40)>>),
      Sig(DevPath, DeviceStateChangedSignal, <<I32(60), U32(50), U32(0)>>),
      Sig(DevPath, DeviceStateChangedSignal, <<U32(70), I32(60), U32(0)>>),
      Sig(DevPath, DeviceStateChangedSignal, <<U32(80), U32(70), I32(0)>>) }

\* Faulty variant of decodeDeviceSignal: sig.Path is not compared with devPath.
decodeDeviceSignalNoPath(sig, devPath) ==
    IF (sig.Name = DeviceStateChangedSignal) /\ (Len(sig.Body) >= BodyMinDev)
         /\ sig.Body[1].t = "u" /\ sig.Body[2].t = "u" /\ sig.Body[3].t = "u"
    THEN [ok |-> TRUE, values |-> <<sig.Body[1].v, sig.Body[2].v, sig.Body[3].v>>]
    ELSE [ok |-> FALSE, values |-> <<>>]

\* Faulty variant of decodeDeviceSignal: len(sig.Body) == 3 instead of >= 3.
decodeDeviceSignalExactArity(sig, devPath) ==
    IF (sig.Path = devPath) /\ (sig.Name = DeviceStateChangedSignal)
         /\ (Len(sig.Body) = BodyMinDev)
         /\ sig.Body[1].t = "u" /\ sig.Body[2].t = "u" /\ sig.Body[3].t = "u"
    THEN [ok |-> TRUE, values |-> <<sig.Body[1].v, sig.Body[2].v, sig.Body[3].v>>]
    ELSE [ok |-> FALSE, values |-> <<>>]

\* Lines 409-425: the path, name and arity test, then the three type assertions.
\* ok = FALSE is the `continue` (or the skipped if-body): nothing is sent.
decodeDeviceSignal(sig, devPath) ==
    IF (sig.Path = devPath) /\ (sig.Name = DeviceStateChangedSignal)
         /\ (Len(sig.Body) >= BodyMinDev)
    THEN IF sig.Body[1].t # "u" THEN [ok |-> FALSE, values |-> <<>>]
         ELSE IF sig.Body[2].t # "u" THEN [ok |-> FALSE, values |-> <<>>]
         ELSE IF sig.Body[3].t # "u" THEN [ok |-> FALSE, values |-> <<>>]
         ELSE [ok |-> TRUE,
               values |-> <<sig.Body[1].v, sig.Body[2].v, sig.Body[3].v>>]
    ELSE [ok |-> FALSE, values |-> <<>>]

SubInit ==
    /\ subPc = "none" /\ subConn = "nil" /\ sigCh = <<>> /\ outCh = <<>>
    /\ pumpPc = "none" /\ pumpVal = <<>> /\ ctxDone = FALSE /\ wg = 0
    /\ joinPc = "none" /\ delivered = <<>> /\ taken = <<>> /\ produced = <<>>
    /\ consumed = <<>>

\* DeviceStateChangeSubscribe (433-449) with deviceStateChangeSubscribe (386-398).
\* matchOk is the bus's answer to conn.AddMatchSignal(matchRule) (line 393),
\* whose returned error is not looked at.
DeviceStateChangeSubscribe(connOk, matchOk) ==
    /\ subPc = "none"
    /\ IF connOk
       THEN /\ subPc' = "live"
            /\ subConn' = "open"
            /\ subMatch' = IF matchOk THEN "ok" ELSE "rejected"
            /\ wg' = wg + 1
            /\ pumpPc' = "select"
       ELSE /\ subPc' = "failed"
            /\ UNCHANGED <<subConn, subMatch, wg, pumpPc>>
    /\ UNCHANGED <<sigCh, outCh, pumpVal, ctxDone, joinPc, delivered, taken,
                   produced, consumed>>

\* Faulty variant of PumpSelectDone: the pump also returns when it finds the raw
\* channel empty.
PumpSelectDoneWhenIdle ==
    /\ pumpPc = "select"
    /\ ctxDone \/ sigCh = <<>>
    /\ pumpPc' = "return"
    /\ UNCHANGED <<subPc, subConn, sigCh, outCh, pumpVal, ctxDone, wg, joinPc,
                   delivered, taken, produced, consumed>>

\* select case <-ctx.Done(): return (lines 406-407).
PumpSelectDone ==
    /\ pumpPc = "select"
    /\ ctxDone
    /\ pumpPc' = "return"
    /\ UNCHANGED <<subPc, subConn, sigCh, outCh, pumpVal, ctxDone, wg, joinPc,
                   delivered, taken, produced, consumed>>

\* Faulty variant of PumpSelectRecv: a notification that fails the validation
\* makes the pump return.
PumpSelectRecvStopsOnInvalid ==
    /\ pumpPc = "select"
    /\ sigCh # <<>>
    /\ LET sig == Head(sigCh)
           d == decodeDeviceSignal(sig, DevPath)
       IN /\ sigCh' = Tail(sigCh)
          /\ taken' = Append(taken, sig)
          /\ IF d.ok
             THEN pumpPc' = "send" /\ pumpVal' = d.values
             ELSE pumpPc' = "return" /\ pumpVal' = <<>>
    /\ UNCHANGED <<subPc, subConn, outCh, ctxDone, wg, joinPc, delivered,
                   produced, consumed>>

\* select case sig := <-sigCh (lines 408-425): take, validate, decode.
PumpSelectRecv ==
    /\ pumpPc = "select"
    /\ sigCh # <<>>
    /\ LET sig == Head(sigCh)
           d == decodeDeviceSignal(sig, DevPath)
       IN /\ sigCh' = Tail(sigCh)
          /\ taken' = Append(taken, sig)
          /\ IF d.ok
             THEN pumpPc' = "send" /\ pumpVal' = d.values
             ELSE pumpPc' = "select" /\ pumpVal' = <<>>
    /\ UNCHANGED <<subPc, subConn, outCh, ctxDone, wg, joinPc, delivered,
                   produced, consumed>>

\* Faulty variant of PumpSend: the record jumps the queue of the output channel.
PumpSendPrepend ==
    /\ pumpPc = "send"
    /\ Len(outCh) < OutChCap
    /\ outCh' = <<pumpVal>> \o outCh
    /\ produced' = Append(produced, pumpVal)
    /\ pumpVal' = <<>>
    /\ pumpPc' = "select"
    /\ UNCHANGED <<subPc, subConn, sigCh, ctxDone, wg, joinPc, delivered, taken,
                   consumed>>

\* Faulty variant of PumpSend: a send that does not block (select with default):
\* the record is dropped when the channel is full.
PumpSendDropsWhenFull ==
    /\ pumpPc = "send"
    /\ IF Len(outCh) < OutChCap
       THEN /\ outCh' = Append(outCh, pumpVal)
            /\ produced' = Append(produced, pumpVal)
       ELSE UNCHANGED <<outCh, produced>>
    /\ pumpVal' = <<>>
    /\ pumpPc' = "select"
    /\ UNCHANGED <<subPc, subConn, sigCh, ctxDone, wg, joinPc, delivered, taken,
                   consumed>>

\* outCh <- values (line 426): blocks while the channel is full.
PumpSend ==
    /\ pumpPc = "send"
    /\ Len(outCh) < OutChCap
    /\ outCh' = Append(outCh, pumpVal)
    /\ produced' = Append(produced, pumpVal)
    /\ pumpVal' = <<>>
    /\ pumpPc' = "select"
    /\ UNCHANGED <<subPc, subConn, sigCh, ctxDone, wg, joinPc, delivered, taken,
                   consumed>>

\* defer conn.Close() (line 402) runs first on return.
PumpDeferClose ==
    /\ pumpPc = "return"
    /\ subConn' = "closed"
    /\ pumpPc' = "closed"
    /\ UNCHANGED <<subPc, sigCh, outCh, pumpVal, ctxDone, wg, joinPc, delivered,
                   taken, produced, consumed>>

\* Faulty variant of PumpDeferDone: the pump ends without wg.Done().
PumpDeferDoneMissing ==
    /\ pumpPc = "closed"
    /\ pumpPc' = "stopped"
    /\ UNCHANGED <<subPc, subConn, sigCh, outCh, pumpVal, ctxDone, wg, joinPc,
                   delivered, taken, produced, consumed>>

\* defer wg.Done() (line 401) runs last.
PumpDeferDone ==
    /\ pumpPc = "closed"
    /\ wg' = wg - 1
    /\ pumpPc' = "stopped"
    /\ UNCHANGED <<subPc, subConn, sigCh, outCh, pumpVal, ctxDone, joinPc,
                   delivered, taken, produced, consumed>>

\* Faulty variant of Stop: a second call panics, as closing a closed channel does.
StopOnceOnly ==
    /\ subPc = "live"
    /\ IF ctxDone THEN subPc' = "panicked" ELSE subPc' = subPc
    /\ ctxDone' = TRUE
    /\ UNCHANGED <<subConn, sigCh, outCh, pumpPc, pumpVal, wg, joinPc,
                   delivered, taken, produced, consumed>>

\* Stop: the context's cancel function (line 445).
Stop ==
    /\ subPc = "live"
    /\ ctxDone' = TRUE
    /\ UNCHANGED <<subPc, subConn, sigCh, outCh, pumpPc, pumpVal, wg, joinPc,
                   delivered, taken, produced, consumed>>

\* Join: wg.Wait (line 446); the caller enters, and leaves once the counter is 0.
JoinCall ==
    /\ subPc = "live"
    /\ joinPc \in {"none", "returned"}
    /\ joinPc' = "waiting"
    /\ UNCHANGED <<subPc, subConn, sigCh, outCh, pumpPc, pumpVal, ctxDone, wg,
                   delivered, taken, produced, consumed>>

JoinReturn ==
    /\ joinPc = "waiting"
    /\ wg = 0
    /\ joinPc' = "returned"
    /\ UNCHANGED <<subPc, subConn, sigCh, outCh, pumpPc, pumpVal, ctxDone, wg,
                   delivered, taken, produced, consumed>>

\* ---- environment of the subscription
\* The transport puts a signal on the channel given to conn.Signal (line 395).
\* The bus routes a signal to the connection only under an accepted match rule.
TransportDeliverUpTo(sig, max) ==
    /\ subConn = "open"
    /\ subMatch = "ok"
    /\ Len(delivered) < max
    /\ Len(sigCh) < SigChCap
    /\ sigCh' = Append(sigCh, sig)
    /\ delivered' = Append(delivered, sig)
    /\ UNCHANGED <<subPc, subConn, outCh, pumpPc, pumpVal, ctxDone, wg, joinPc,
                   taken, produced, consumed>>

TransportDeliver(sig) == TransportDeliverUpTo(sig, MaxDeliver)

\* The owner of the subscription reads a record from C.
ConsumerRecv ==
    /\ outCh # <<>>
    /\ consumed' = Append(consumed, Head(outCh))
    /\ outCh' = Tail(outCh)
    /\ UNCHANGED <<subPc, subConn, sigCh, pumpPc, pumpVal, ctxDone, wg, joinPc,
                   delivered, taken, produced>>

----------------------------------------------------------------------------
\* ======================= a second DeviceStateChangeSubscribe in the process

\* dbus.SystemBus() (line 387) hands out godbus's process-wide shared connection
\* as long as one is connected, and dials a new one only otherwise. conn is the
\* state of the connection the first subscription obtained.
SystemBusShared(conn) == conn = "open"

\* A second subscription is created while the first exists (lines 433-449).
Sub2Subscribe ==
    /\ subPc = "live"
    /\ sub2Pc = "none"
    /\ sub2Pc' = "live"
    /\ sub2Shares' = SystemBusShared(subConn)
    /\ UNCHANGED subVars

\* Its owner calls Stop (line 445).
Sub2Stop ==
    /\ sub2Pc = "live"
    /\ sub2Pc' = "cancelled"
    /\ UNCHANGED <<sub2Shares, subVars>>

\* Its pump takes case <-ctx.Done() and runs the deferred conn.Close() and
\* wg.Done() (lines 401-407) on the connection it was given.
Sub2PumpExit ==
    /\ sub2Pc = "cancelled"
    /\ sub2Pc' = "stopped"
    /\ subConn' = IF sub2Shares THEN "closed" ELSE subConn
    /\ UNCHANGED <<sub2Shares, subPc, sigCh, outCh, pumpPc, pumpVal, ctxDone, wg,
                   joinPc, delivered, taken, produced, consumed>>

----------------------------------------------------------------------------
\* ======================= NetworkManager state subscription

NetworkManagerObjectPath == "/org/freedesktop/NetworkManager"
NetworkManagerStateChanged == "org.freedesktop.NetworkManager.StateChanged"

\* Signals NetworkManager and its devices emit on the bus.
NmSignals ==
    { Sig(NetworkManagerObjectPath, NetworkManagerStateChanged, <<U32(70)>>),
      Sig(NetworkManagerObjectPath, NetworkManagerStateChanged, <<U32(20)>>),
      Sig(NetworkManagerObjectPath, NetworkManagerStateChanged, <<I32(70)>>),
      Sig(NetworkManagerObjectPath, NetworkManagerStateChanged, <<>>),
      Sig(DevPath, NetworkManagerStateChanged, <<U32(70)>>),
      Sig(NetworkManagerObjectPath, PropertiesChangedSignal, <<U32(70)>>) }

\* The match rule of line 108: interface, member and path of the signal.
matchRule(sig) ==
    sig.Name = NetworkManagerStateChanged /\ sig.Path = NetworkManagerObjectPath

\* GetNetworkManagerStateSubscription (network.go 107-112) with
\* MakeDBusSignalSubscription (unix.go 50-65).
GetNetworkManagerStateSubscription(connOk, matchOk) ==
    /\ nmPc = "none"
    /\ IF connOk /\ matchOk
       THEN /\ nmPc' = "live"
            /\ nmConn' = "open"
       ELSE /\ nmPc' = "failed"
            /\ nmConn' = nmConn
    /\ UNCHANGED <<nmCh, nmDelivered, nmRead>>

\* The bus sends a signal the rule matches; conn.Signal(ch) (unix.go 61) puts it
\* on C as it is.
NmDeliver(sig) ==
    /\ nmPc = "live" /\ nmConn = "open"
    /\ matchRule(sig)
    /\ Len(nmDelivered) < MaxNmDeliver
    /\ Len(nmCh) < NmChCap
    /\ nmCh' = Append(nmCh, sig)
    /\ nmDelivered' = Append(nmDelivered, sig)
    /\ UNCHANGED <<nmPc, nmConn, nmRead>>

\* The owner reads C (`state := <-subsc.C`).
NmRead ==
    /\ nmCh # <<>>
    /\ nmRead' = Append(nmRead, Head(nmCh))
    /\ nmCh' = Tail(nmCh)
    /\ UNCHANGED <<nmPc, nmConn, nmDelivered>>

----------------------------------------------------------------------------
\* ======================= specifications

AuxInit ==
    /\ preReply = NoReply /\ reqReply = NoReply
    /\ subMatch = "none" /\ stopCalls = 0 /\ joinCalls = 0
    /\ sub2Pc = "none" /\ sub2Shares = FALSE
    /\ nmPc = "none" /\ nmConn = "nil" /\ nmCh = <<>> /\ nmDelivered = <<>>
    /\ nmRead = <<>>

Init == SvcInit /\ SubInit /\ AuxInit

SvcNext ==
    \/ \E op \in {"start", "stop"}, connOk \in BOOLEAN :
           SvcBegin(op, connOk) /\ UNCHANGED <<svcHist, notSvc>>
    \/ \E reply \in StatusReplies(unitState) :
           SvcPreCheck(reply) /\ UNCHANGED <<reqReply, notSvc>>
    \/ \E reply \in RequestReplies : SvcIssue(reply) /\ UNCHANGED <<preReply, notSvc>>
    \/ SvcRegister /\ UNCHANGED <<svcHist, notSvc>>
    \/ SvcWaitTimeout /\ UNCHANGED <<svcHist, notSvc>>
    \/ SvcWaitSignal /\ UNCHANGED <<svcHist, notSvc>>
    \/ \E reply \in StatusReplies(unitState) :
           SvcReconcile(reply) /\ UNCHANGED <<svcHist, notSvc>>
    \/ TimerFire /\ UNCHANGED <<svcHist, notSvc>>
    \/ \E sig \in JobSignals : BusEmit(sig) /\ UNCHANGED <<svcHist, notSvc>>
    \/ \E s \in UnitStates : UnitChange(s) /\ UNCHANGED <<svcHist, notSvc>>

SubNext ==
    \/ \E connOk, matchOk \in BOOLEAN :
           DeviceStateChangeSubscribe(connOk, matchOk)
               /\ UNCHANGED <<stopCalls, joinCalls, notSub>>
    \/ PumpSelectDone /\ UNCHANGED <<subAux, notSub>>
    \/ PumpSelectRecv /\ UNCHANGED <<subAux, notSub>>
    \/ PumpSend /\ UNCHANGED <<subAux, notSub>>
    \/ PumpDeferClose /\ UNCHANGED <<subAux, notSub>>
    \/ PumpDeferDone /\ UNCHANGED <<subAux, notSub>>
    \/ Stop /\ UNCHANGED <<subAux, notSub>>
    \/ JoinCall /\ UNCHANGED <<subAux, notSub>>
    \/ JoinReturn /\ UNCHANGED <<subAux, notSub>>
    \/ \E sig \in DevSignals : TransportDeliver(sig) /\ UNCHANGED <<subAux, notSub>>
    \/ ConsumerRecv /\ UNCHANGED <<subAux, notSub>>

\* One StartService/StopService call against a live systemd.
SvcSpec == Init /\ [][SvcNext]_vars

\* One StartService/StopService call on a busy system: notifications stream in
\* for as long as the connection is open.
WaitNext ==
    \/ \E op \in {"start", "stop"}, connOk \in BOOLEAN :
           SvcBegin(op, connOk) /\ UNCHANGED <<svcHist, notSvc>>
    \/ \E reply \in StatusReplies(unitState) :
           SvcPreCheck(reply) /\ UNCHANGED <<reqReply, notSvc>>
    \/ \E reply \in RequestReplies : SvcIssue(reply) /\ UNCHANGED <<preReply, notSvc>>
    \/ SvcRegister /\ UNCHANGED <<svcHist, notSvc>>
    \/ SvcWaitTimeout /\ UNCHANGED <<svcHist, notSvc>>
    \/ SvcWaitSignalForget /\ UNCHANGED <<svcHist, notSvc>>
    \/ \E reply \in StatusReplies(unitState) :
           SvcReconcile(reply) /\ UNCHANGED <<svcHist, notSvc>>
    \/ TimerFire /\ UNCHANGED <<svcHist, notSvc>>
    \/ \E sig \in StreamSignals : StreamEmit(sig) /\ UNCHANGED <<svcHist, notSvc>>

WaitSpec == Init /\ [][WaitNext]_vars

\* Time passes, so the armed timer expires; and Go's select chooses at random
\* among its ready cases, so a case that stays ready is taken in the end.
WaitFairSpec ==
    WaitSpec /\ WF_vars(TimerFire /\ UNCHANGED <<svcHist, notSvc>>)
             /\ WF_vars(SvcWaitTimeout /\ UNCHANGED <<svcHist, notSvc>>)

\* One device subscription, its pump, its owner and the transport.
SubSpec == Init /\ [][SubNext]_vars

\* The owner calls Stop and Join repeatedly; the calls are counted.
StopCounted ==
    /\ stopCalls < MaxCalls
    /\ Stop
    /\ stopCalls' = stopCalls + 1
    /\ UNCHANGED <<subMatch, joinCalls>>

JoinCounted ==
    /\ joinCalls < MaxCalls
    /\ JoinCall
    /\ joinCalls' = joinCalls + 1
    /\ UNCHANGED <<subMatch, stopCalls>>

SubCallNext ==
    \/ \E connOk, matchOk \in BOOLEAN :
           DeviceStateChangeSubscribe(connOk, matchOk)
               /\ UNCHANGED <<stopCalls, joinCalls, notSub>>
    \/ PumpSelectDone /\ UNCHANGED <<subAux, notSub>>
    \/ PumpSelectRecv /\ UNCHANGED <<subAux, notSub>>
    \/ PumpSend /\ UNCHANGED <<subAux, notSub>>
    \/ PumpDeferClose /\ UNCHANGED <<subAux, notSub>>
    \/ PumpDeferDone /\ UNCHANGED <<subAux, notSub>>
    \/ StopCounted /\ UNCHANGED notSub
    \/ JoinCounted /\ UNCHANGED notSub
    \/ JoinReturn /\ UNCHANGED <<subAux, notSub>>
    \/ \E sig \in DevSignals :
           TransportDeliverUpTo(sig, MaxCallDeliver) /\ UNCHANGED <<subAux, notSub>>
    \/ ConsumerRecv /\ UNCHANGED <<subAux, notSub>>

SubCallSpec == Init /\ [][SubCallNext]_vars

\* Two device subscriptions in one process.
notShare == <<svcVars, svcHist, subAux, nmVars>>

ShareNext ==
    \/ \E connOk, matchOk \in BOOLEAN :
           DeviceStateChangeSubscribe(connOk, matchOk)
               /\ UNCHANGED <<stopCalls, joinCalls, notSub>>
    \/ PumpSelectDone /\ UNCHANGED <<subAux, notSub>>
    \/ PumpSelectRecv /\ UNCHANGED <<subAux, notSub>>
    \/ PumpSend /\ UNCHANGED <<subAux, notSub>>
    \/ PumpDeferClose /\ UNCHANGED <<subAux, notSub>>
    \/ PumpDeferDone /\ UNCHANGED <<subAux, notSub>>
    \/ Stop /\ UNCHANGED <<subAux, notSub>>
    \/ JoinCall /\ UNCHANGED <<subAux, notSub>>
    \/ JoinReturn /\ UNCHANGED <<subAux, notSub>>
    \/ \E sig \in DevSignals :
           TransportDeliverUpTo(sig, MaxCallDeliver) /\ UNCHANGED <<subAux, notSub>>
    \/ ConsumerRecv /\ UNCHANGED <<subAux, notSub>>
    \/ Sub2Subscribe /\ UNCHANGED notShare
    \/ Sub2Stop /\ UNCHANGED notShare
    \/ Sub2PumpExit /\ UNCHANGED notShare

ShareSpec == Init /\ [][ShareNext]_vars

\* The NetworkManager state subscription, the bus and the owner reading C.
notNm == <<svcVars, svcHist, subVars, subAux, shareVars>>

NmNext ==
    \/ \E connOk, matchOk \in BOOLEAN :
           GetNetworkManagerStateSubscription(connOk, matchOk) /\ UNCHANGED notNm
    \/ \E sig \in NmSignals : NmDeliver(sig) /\ UNCHANGED notNm
    \/ NmRead /\ UNCHANGED notNm

NmSpec == Init /\ [][NmNext]_vars

\* A busy device and a slow owner: the transport keeps delivering the device's
\* StateChanged signal, enough of them to fill the output channel.
FillSignal == Sig(DevPath, DeviceStateChangedSignal, <<U32(100), U32(70), U32(0)>>)

SubFullNext ==
    \/ \E connOk, matchOk \in BOOLEAN :
           DeviceStateChangeSubscribe(connOk, matchOk)
               /\ UNCHANGED <<stopCalls, joinCalls, notSub>>
    \/ PumpSelectDone /\ UNCHANGED <<subAux, notSub>>
    \/ PumpSelectRecv /\ UNCHANGED <<subAux, notSub>>
    \/ PumpSend /\ UNCHANGED <<subAux, notSub>>
    \/ PumpDeferClose /\ UNCHANGED <<subAux, notSub>>
    \/ PumpDeferDone /\ UNCHANGED <<subAux, notSub>>
    \/ Stop /\ UNCHANGED <<subAux, notSub>>
    \/ JoinCall /\ UNCHANGED <<subAux, notSub>>
    \/ JoinReturn /\ UNCHANGED <<subAux, notSub>>
    \/ TransportDeliverUpTo(FillSignal, MaxFill) /\ UNCHANGED <<subAux, notSub>>
    \/ ConsumerRecv /\ UNCHANGED <<subAux, notSub>>

SubFullSpec == Init /\ [][SubFullNext]_vars

\* The Go scheduler runs a runnable goroutine: the pump takes its next step and a
\* caller blocked in wg.Wait resumes once the counter is zero.
PumpNext ==
    PumpSelectDone \/ PumpSelectRecv \/ PumpSend \/ PumpDeferClose \/ PumpDeferDone

SubFairSpec ==
    SubSpec /\ WF_vars(PumpNext /\ UNCHANGED <<subAux, notSub>>)
            /\ WF_vars(JoinReturn /\ UNCHANGED <<subAux, notSub>>)


----------------------------------------------------------------------------
\* ======================= properties of StartService / StopService

Last(seq) == seq[Len(seq)]

\* A JobRemoved notification that carries the job path tok.
CarriesToken(sig, tok) ==
    /\ sig.Name = dbusJobRemovedSignalName
    /\ Len(sig.Body) >= 4
    /\ sig.Body[2] = tok

\* waitJobComplete has reported something taken from a notification.
Reported == waitOutcome \in {"result", "badtype"}

\* C1: waitJobComplete reports a job result only from a JobRemoved notification
\* whose job path equals the token waited for; a notification with another token
\* is discarded, the wait goes on, and its result is never reported.
C1_OnlyMatchingTokenReported ==
    /\ Reported =>
          /\ jobSeen # <<>>
          /\ CarriesToken(Last(jobSeen), jobToken)
    /\ waitOutcome = "result" =>
          /\ Last(jobSeen).Body[4].t = "s"
          /\ jobResult = Last(jobSeen).Body[4].v
    /\ ~Reported => jobResult = ""
    /\ \A i \in 1..Len(jobSeen) :
          ~CarriesToken(jobSeen[i], jobToken) =>
              /\ i < Len(jobSeen) \/ ~Reported
              /\ i = Len(jobSeen) => (svcPc = "wait" \/ waitOutcome = "timeout")

\* Two notifications were taken, the first a complete JobRemoved of another job,
\* and the second gave the result.
C1_Witness ==
    /\ waitOutcome = "result"
    /\ Len(jobSeen) = 2
    /\ jobSeen[1].Name = dbusJobRemovedSignalName
    /\ Len(jobSeen[1].Body) >= 4
    /\ jobSeen[1].Body[2] = Obj(OtherTok)
    /\ jobSeen[1].Body[4] = Str("done")
    /\ jobResult = "failed"

\* The pre-check found the end state the operation is asked to reach.
PreCheckSatisfied ==
    \/ svcOp = "start" /\ preRes = "running"
    \/ svcOp = "stop" /\ preRes = "stopped"

\* C2: when the pre-check finds the desired end state, the operation returns
\* success at once, sends no StartUnit/StopUnit and never waits for a job.
C2_DesiredStateNoRequest ==
    PreCheckSatisfied =>
        /\ svcPc = "done"
        /\ svcErr = NoErr
        /\ mutCalls = 0
        /\ ~registered /\ ~timerArmed
        /\ jobSeen = <<>>
        /\ statusChecks = 1

C2_Witness ==
    /\ svcOp = "stop" /\ preRes = "stopped" /\ unitState = "failed"
    /\ svcPc = "done" /\ svcConn = "closed"

\* No notification with the issued token has reached the channel of the wait.
NoMatchingArrived ==
    \A i \in 1..Len(jobArrived) : ~CarriesToken(jobArrived[i], jobToken)

\* C3: if no job-completion notification with the issued token arrives before the
\* deadline, the operation returns the timeout error and the mutating request
\* has been sent exactly once.
C3_TimeoutErrorNoRetry ==
    /\ (svcPc = "done" /\ registered /\ NoMatchingArrived) =>
          /\ svcErr = Err("timeout")
          /\ waitOutcome = "timeout"
          /\ mutCalls = 1
    /\ waitOutcome = "timeout" =>
          /\ svcPc = "done"
          /\ svcErr = Err("timeout")
          /\ mutCalls = 1

\* The wait timed out although notifications (none with the token) did arrive.
C3_Witness ==
    /\ svcPc = "done" /\ waitOutcome = "timeout"
    /\ Len(jobSeen) = 2
    /\ NoMatchingArrived
    /\ jobToken = Obj(TargetTok)

\* C4: after a wait that timed out, the operation queries the unit's status again
\* before it returns.
C4_TimeoutReconciles ==
    (svcPc = "done" /\ waitOutcome = "timeout") => statusChecks >= 2

\* C5: a matched result "done" returns success; any other matched result goes on
\* to the reconciliation query instead of returning at once.
C5_DoneOrReconcile ==
    /\ (waitOutcome = "result" /\ jobResult = "done") =>
          /\ svcPc = "done"
          /\ svcErr = NoErr
          /\ statusChecks = 1
          /\ reconReply = NoReply
    /\ (waitOutcome = "result" /\ jobResult # "done") =>
          \/ svcPc = "reconcile" /\ statusChecks = 1
          \/ svcPc = "done" /\ statusChecks = 2 /\ reconReply # NoReply

C5_Witness ==
    /\ waitOutcome = "result" /\ jobResult = "done"
    /\ svcOp = "start" /\ svcPc = "done" /\ svcErr = NoErr
    /\ unitState = "inactive"

\* The reconciliation query was answered with a string state.
ReconState == reconReply.val.v
ReconAnswered == reconReply.k = "val" /\ reconReply.val.t = "s"
ReconRunning == ReconState \notin {"inactive", "failed"}

\* C6: after a matched result other than "done" the observed unit state decides:
\* StartService succeeds if the unit is running and otherwise fails naming the
\* job result; StopService succeeds if it is stopped and otherwise fails naming
\* the job result.
C6_ObservedStateDecides ==
    (svcPc = "done" /\ ReconAnswered) =>
        /\ waitOutcome = "result" /\ jobResult # "done"
        /\ (svcOp = "start" /\ ReconRunning) => svcErr = NoErr
        /\ (svcOp = "start" /\ ~ReconRunning) =>
               svcErr = ErrJob("jobFailed", jobResult)
        /\ (svcOp = "stop" /\ ~ReconRunning) => svcErr = NoErr
        /\ (svcOp = "stop" /\ ReconRunning) =>
               svcErr = ErrJob("jobFailed", jobResult)

C6_Witness ==
    /\ svcPc = "done" /\ svcOp = "stop"
    /\ ReconAnswered /\ ReconState = "active"
    /\ svcErr = ErrJob("jobFailed", "failed")

----------------------------------------------------------------------------
\* ======================= properties of the device subscription

\* The notification is the device's StateChanged signal.
Matching(sig) == sig.Path = DevPath /\ sig.Name = DeviceStateChangedSignal

\* ... with at least three body elements, the first three of them uint32.
WellFormed(sig) ==
    /\ Matching(sig)
    /\ Len(sig.Body) >= 3
    /\ \A i \in 1..3 : sig.Body[i].t = "u"

Rec(sig) == <<sig.Body[1].v, sig.Body[2].v, sig.Body[3].v>>

\* Records the pump has made so far: those sent and the one it is sending.
InFlight == IF pumpPc = "send" THEN <<pumpVal>> ELSE <<>>
Made == produced \o InFlight

Count(seq, x) == Cardinality({i \in 1..Len(seq) : seq[i] = x})

\* C7: a notification whose path is not the subscribed device path, or whose name
\* is not the device StateChanged signal, never produces a record.
C7_NonMatchingProducesNothing ==
    /\ Len(Made) <= Cardinality({j \in 1..Len(taken) : Matching(taken[j])})
    /\ \A i \in 1..Len(Made) :
          \E j \in 1..Len(taken) :
              Matching(taken[j]) /\ Len(taken[j].Body) >= 3 /\ Made[i] = Rec(taken[j])
    /\ (taken # <<>> /\ ~Matching(Last(taken))) => pumpPc # "send"

\* The pump has taken a notification of another device and one with another
\* name, and made no record.
C7_Witness ==
    /\ \E i \in 1..Len(taken) : taken[i].Path # DevPath
    /\ \E i \in 1..Len(taken) : taken[i].Name # DeviceStateChangedSignal
    /\ Len(taken) = 2 /\ Made = <<>> /\ pumpPc = "select"

\* C8 as stated: every well-formed matching notification the transport delivered
\* has its record, so once the pump has ended the records number as many as
\* those notifications.
C8_EveryDeliveredHasRecord ==
    pumpPc = "stopped" =>
        Len(produced) = Len(SelectSeq(delivered, WellFormed))

\* C8, amended: every well-formed matching notification the pump has taken from
\* the raw channel has exactly one record (sent, or being sent), and no other
\* record exists; notifications still queued when the pump ends have none.
C8_EveryTakenHasOneRecord ==
    /\ \A j \in 1..Len(taken) :
          WellFormed(taken[j]) =>
              Count(Made, Rec(taken[j])) =
                  Cardinality({k \in 1..Len(taken) :
                                 WellFormed(taken[k]) /\ Rec(taken[k]) = Rec(taken[j])})
    /\ Len(Made) = Len(SelectSeq(taken, WellFormed))

\* Both well-formed notifications (one with a fourth element) and a malformed
\* one were taken and two records sent.
C8_Witness ==
    /\ Len(taken) = 3 /\ Len(produced) = 2
    /\ \E j \in 1..3 : WellFormed(taken[j]) /\ Len(taken[j].Body) = 4
    /\ \E j \in 1..3 : Matching(taken[j]) /\ ~WellFormed(taken[j])

\* C9: records leave the subscription in the order in which the transport
\* delivered their notifications: the pump takes notifications in delivery
\* order and the records, read in channel order, follow the order of the taken
\* notifications.
C9_RecordsInDeliveryOrder ==
    /\ taken \o sigCh = delivered
    /\ LET wf == SelectSeq(taken, WellFormed)
           out == consumed \o outCh \o InFlight
       IN /\ Len(out) = Len(wf)
          /\ \A i \in 1..Len(out) : out[i] = Rec(wf[i])

\* Two different records wait in the output channel behind one already read.
C9_Witness ==
    /\ Len(consumed) = 1 /\ Len(outCh) = 2
    /\ outCh[1] # outCh[2]

\* Number of connections the subscription holds open.
OpenConns == IF subConn = "open" THEN 1 ELSE 0

\* C10: with no notification ever received, Stop followed by Join terminates:
\* the pump ends, Join returns and the connection is closed.
C10_CancelJoinTerminates ==
    (ctxDone /\ joinPc = "waiting" /\ delivered = <<>>)
        ~> (\/ delivered # <<>>
            \/ joinPc = "returned" /\ pumpPc = "stopped" /\ OpenConns = 0)

C10_Witness ==
    /\ delivered = <<>> /\ ctxDone
    /\ joinPc = "returned" /\ pumpPc = "stopped" /\ OpenConns = 0


\* C11: once Stop has been called the pump reaches Stopped and Join returns
\* whatever the pump is doing, also when it holds a record for an output channel
\* that is full and that nobody reads: after the cancellation the pump is never
\* left without a step it can take on its own.
C11_CancelNeverBlocks ==
    (ctxDone /\ pumpPc \in {"select", "send", "return", "closed"}) =>
        ENABLED PumpNext

\* C12: the pump never exits on its own: as long as Stop has not been called the
\* pump has not begun to return, its connection is not closed and no Join has
\* returned, whatever notifications arrived.
C12_PumpNeverExitsOnItsOwn ==
    ~ctxDone =>
        /\ pumpPc \notin {"return", "closed", "stopped"}
        /\ subConn # "closed"
        /\ joinPc # "returned"
        /\ subPc = "live" => wg = 1

\* Join is waiting, Stop was never called, and the pump has worked through
\* three notifications and waits for more.
C12_Witness ==
    /\ ~ctxDone /\ joinPc = "waiting"
    /\ Len(taken) = 3 /\ sigCh = <<>> /\ pumpPc = "select"

\* C13: Stop is idempotent and Join is repeatable: a further call of Stop changes
\* nothing of the subscription, the cancellation is set exactly when Stop was
\* called at least once, a Join entered after the pump has ended can return at
\* once, and Join returns only after the pump has ended.
C13_StopIdempotentJoinRepeatable ==
    /\ [](ctxDone <=> stopCalls > 0)
    /\ [][(stopCalls' = stopCalls + 1 /\ stopCalls > 0) => UNCHANGED subVars]_vars
    /\ []((joinPc = "waiting" /\ pumpPc = "stopped") => wg = 0)
    /\ [](joinPc = "returned" => pumpPc = "stopped" /\ subPc = "live")

\* Stop was called twice and Join returned from its second call.
C13_Witness ==
    /\ stopCalls = 2 /\ joinCalls = 2 /\ joinPc = "returned"

\* C14: creating a subscription fails when the bus rejects the match rule: no
\* subscription is handed out and no pump runs.
C14_RejectedMatchIsError ==
    subMatch = "rejected" => (subPc = "failed" /\ pumpPc = "none")

\* The bus answered the call with an error.
CallFailed(reply) == reply.k \in {"getUnitErr", "getPropErr", "callErr"}

\* C15: one invocation sends at most one StartUnit/StopUnit, and a failed bus call
\* (pre-check, request, reconciliation query) ends it at once with an error:
\* nothing is retried, a failed pre-check sends no request, and a rejected
\* request is not followed by a wait.
C15_AtMostOneRequestFailFast ==
    /\ mutCalls <= 1
    /\ statusChecks <= 2
    /\ CallFailed(preReply) =>
          /\ svcPc = "done" /\ svcErr = Err("precheck")
          /\ mutCalls = 0 /\ statusChecks = 1
          /\ ~registered /\ ~timerArmed
    /\ CallFailed(reqReply) =>
          /\ svcPc = "done" /\ svcErr = Err("request")
          /\ mutCalls = 1 /\ statusChecks = 1
          /\ ~registered /\ ~timerArmed /\ jobSeen = <<>>
    /\ CallFailed(reconReply) =>
          /\ svcPc = "done" /\ svcErr = Err("reconcile")
          /\ mutCalls = 1 /\ statusChecks = 2

\* StopService on a running unit whose StopUnit call the bus rejected.
C15_Witness ==
    /\ svcOp = "stop" /\ preRes = "running"
    /\ reqReply.k = "callErr"
    /\ svcPc = "done" /\ svcConn = "closed"

\* The status query was answered, but not with a string.
Undecodable(reply) == reply.k = "val" /\ reply.val.t # "s"

\* C16: a status reply that does not decode as a string state is an error to the
\* caller, in the pre-check and in the reconciliation query alike.
C16_UndecodableStatusIsError ==
    /\ Undecodable(preReply) => (preRes = "err" /\ svcErr = Err("precheck"))
    /\ Undecodable(reconReply) => svcErr = Err("reconcile")

\* C19: no job-completion notification with the issued token that the service
\* manager emits after it accepted the request is lost on its way to the waiter.
C19_NoMatchingNotificationLost ==
    \A i \in 1..Len(jobLost) : ~CarriesToken(jobLost[i], jobToken)

\* C20: once Stop has been called the pump reads no further notification from
\* the raw channel.
C20_NoReadAfterCancel == [][ctxDone => taken' = taken]_vars

\* C17: a connection belongs to one subscription alone, so while a pump is at
\* work (it has not taken the cancellation) nobody else has closed the
\* connection it reads from.
C17_ConnectionExclusive ==
    pumpPc \in {"select", "send"} => subConn = "open"

\* The notification carries one state code.
HasStateCode(sig) == Len(sig.Body) >= 1 /\ sig.Body[1].t = "u"

\* C18: what the NetworkManager state subscription puts on its channel comes from
\* a StateChanged notification of the NetworkManager object and carries a
\* decodable state code; anything else never appears there.
C18_OnlyDecodedStateCodes ==
    \A i \in 1..Len(nmCh) :
        /\ nmCh[i].Path = NetworkManagerObjectPath
        /\ nmCh[i].Name = NetworkManagerStateChanged
        /\ HasStateCode(nmCh[i])

\* C21: a notification that fails any validation of the pump (path, name, fewer
\* than three body elements, one of the first three not a uint32) produces no
\* record and leaves the pump running: taking it changes neither the output
\* channel nor the records made, the pump is back at its select with nothing to
\* send, its connection and wait-group counter are untouched, and a valid
\* notification taken after it still has its record.
C21_InvalidDiscardedPumpContinues ==
    /\ [][(taken' # taken /\ ~WellFormed(Last(taken'))) =>
              /\ pumpPc' = "select" /\ pumpVal' = <<>>
              /\ outCh' = outCh /\ produced' = produced
              /\ subPc' = subPc /\ subConn' = subConn /\ wg' = wg]_vars
    /\ [](\A j \in 2..Len(taken) :
              (~WellFormed(taken[j - 1]) /\ WellFormed(taken[j])) =>
                  \E i \in 1..Len(Made) : Made[i] = Rec(taken[j]))

\* The pump took a notification of its device with a mistyped element, then one
\* with two elements only, then a valid one, whose record it has sent.
C21_Witness ==
    /\ ~ctxDone /\ Len(taken) = 3 /\ pumpPc = "select"
    /\ Matching(taken[1]) /\ Len(taken[1].Body) >= 3 /\ ~WellFormed(taken[1])
    /\ Matching(taken[2]) /\ Len(taken[2].Body) < 3
    /\ WellFormed(taken[3])
    /\ produced = <<Rec(taken[3])>>

\* The pump holds a record for an output channel that is full.
BlockedOnSend == pumpPc = "send" /\ Len(outCh) = OutChCap

\* C22: the output channel never holds more than 20 records; when it is full the
\* pump stays in its send, keeping its record, until the consumer takes a
\* record; and no validated record is dropped or overwritten: the records sent
\* are exactly those read plus those in the channel, and every valid
\* notification the pump took has its record, sent or being sent.
C22_BoundedBlockingNoDrop ==
    /\ [](Len(outCh) <= OutChCap)
    /\ [](BlockedOnSend => ~ENABLED PumpSend)
    /\ [][BlockedOnSend =>
              /\ pumpPc' = "send" /\ pumpVal' = pumpVal
              /\ outCh' = outCh \/ (outCh' = Tail(outCh) /\ consumed' # consumed)]_vars
    /\ [](produced = consumed \o outCh)
    /\ [](Len(Made) = Len(SelectSeq(taken, WellFormed)))

\* Nobody has read and nobody has cancelled: twenty records fill the channel and
\* the pump holds the twenty-first.
C22_Witness ==
    /\ BlockedOnSend /\ ~ctxDone
    /\ Len(taken) = 21 /\ consumed = <<>> /\ Len(pumpVal) = 3

\* Number of connections the StartService/StopService call holds open.
SvcOpenConns == IF svcConn = "open" THEN 1 ELSE 0

\* C23: the connection StartService/StopService opened is closed on every return
\* path, so after the call has returned as many connections are open as before
\* it (none of its own); it is open exactly while the call is under way, and a
\* call that could not connect has none to close.
C23_ConnectionClosedOnReturn ==
    /\ svcPc = "idle" => SvcOpenConns = 0
    /\ svcPc = "done" =>
          /\ SvcOpenConns = 0
          /\ svcConn = IF svcErr = Err("connect") THEN "nil" ELSE "closed"
    /\ svcPc \notin {"idle", "done"} => SvcOpenConns = 1

\* The call returned from the wait with the error of an undecodable job result.
C23_Witness ==
    /\ svcPc = "done" /\ waitOutcome = "badtype" /\ svcErr = Err("badtype")
    /\ svcConn = "closed"

\* C24: the job wait has one deadline, armed once and never reset: no step
\* disarms the timer or takes back its expiry, whatever notifications are
\* received, so waitJobComplete always ends (matched result, decode error or
\* timeout), also under a stream of non-matching notifications without end.
C24_WaitAlwaysTerminates ==
    /\ [][timerArmed => timerArmed']_vars
    /\ [][timerFired => timerFired']_vars
    /\ [](svcPc = "wait" => timerArmed)
    /\ (svcPc = "wait") ~> (svcPc # "wait")

\* The wait ended by the timeout after it had taken notifications of another
\* job, and the channel was still full of them.
C24_Witness ==
    /\ waitOutcome = "timeout" /\ svcPc = "done"
    /\ Len(jobSeen) = MaxSeenKept
    /\ Len(signalCh) = JobChCap
    /\ \A i \in 1..Len(signalCh) : ~CarriesToken(signalCh[i], jobToken)

\* The pre-check query was answered with a string state.
PreAnswered == preReply.k = "val" /\ preReply.val.t = "s"
PreState == preReply.val.v
PreDown == PreState \in {"inactive", "failed"}

\* C25: the status check reports a unit as running exactly when its ActiveState
\* is neither "inactive" nor "failed". So StartService on an inactive or failed
\* unit goes on to its start request and cannot return without having sent it,
\* StartService on a unit in any other state returns success without a request,
\* and StopService on an inactive or failed unit returns success without a
\* request.
C25_RunningIffNotInactiveOrFailed ==
    PreAnswered =>
        /\ preRes = IF PreDown THEN "stopped" ELSE "running"
        /\ (svcOp = "start" /\ PreDown) =>
               \/ svcPc = "issue" /\ mutCalls = 0
               \/ svcPc # "issue" /\ mutCalls = 1
        /\ (svcOp = "start" /\ ~PreDown) =>
               svcPc = "done" /\ svcErr = NoErr /\ mutCalls = 0
        /\ (svcOp = "stop" /\ PreDown) =>
               svcPc = "done" /\ svcErr = NoErr /\ mutCalls = 0

\* StartService found the unit "activating" and returned success at once.
C25_Witness ==
    /\ svcOp = "start" /\ PreAnswered /\ PreState = "activating"
    /\ svcPc = "done" /\ svcErr = NoErr /\ mutCalls = 0 /\ svcConn = "closed"

====
